---- MODULE Spec2Model ----
(***************************************************************************)
(* Model of the Swagger UI middleware of swagger.go: the handler closure   *)
(* returned by New, its sync.Once guarded lazy computation of prefix and   *)
(* cfg.URL, getForwardedPrefix, and the four-way dispatch on the trailing  *)
(* wildcard segment.  Strings are sequences of one-character strings.      *)
(***************************************************************************)
EXTENDS Integers, Sequences, FiniteSets, TLC

\* ---------------------------------------------------------------- bounds
NumProcs == 2
MaxRequests == 3

Procs == 1..NumProcs

\* ------------------------------------------------------------- constants
defaultDocURL == <<"d", "o", "c", ".", "j", "s", "o", "n">>
defaultIndex == <<"i", "n", "d", "e", "x", ".", "h", "t", "m", "l">>
StatusOK == 200
StatusMovedPermanently == 301
StatusNotFound == 404

Empty == <<>>
Slash == <<"/">>

\* --------------------------------------------------------------- inputs
\* Route path templates the handler is mounted under.
Routes == { <<"/", "d", "/", "*">>, <<"/", "d">>, <<"*">>, <<"/", "*", "/", "d", "/", "*">> }
\* The routes of the concurrent specification.
ConcRoutes == { <<"/", "d", "/", "*">>, <<"*">> }
\* Values of the X-Forwarded-Prefix header (Empty: absent or empty).
Headers == { Empty, <<"/", "a">>, <<"/", "a", "/">>, <<"/", "a", "/", "/">>, <<"/">>, <<"/", "/">> }
\* The header values of the concurrent specification.
ConcHeaders == { Empty, <<"/", "a", "/">> }
\* A document-URL override a caller may configure.
CustomURL == <<"c">>
\* Values of the trailing wildcard parameter.
Segments == { defaultIndex, defaultDocURL, Empty, Slash, CustomURL }
\* Instance names; only RegisteredNames have a document in the registry.
InstanceNames == { "swagger", "other" }
RegisteredNames == { "swagger" }
Configs == [URL : {Empty, CustomURL}, InstanceName : InstanceNames]

\* ------------------------------------------------------ string functions
RECURSIVE ReplaceFrom(_, _, _)
\* s from position i on, without the occurrences of old.
ReplaceFrom(s, old, i) ==
    IF i > Len(s) THEN Empty
    ELSE IF s[i] = old THEN ReplaceFrom(s, old, i + 1)
    ELSE <<s[i]>> \o ReplaceFrom(s, old, i + 1)

\* strings.ReplaceAll(s, old, "") for a one-character old.
ReplaceAll(s, old) == ReplaceFrom(s, old, 1)

RECURSIVE TrimEndZero(_, _)
\* TrimEnd with the loop running while endIndex > 0.
TrimEndZero(header, endIndex) ==
    IF endIndex > 0 /\ header[endIndex] = "/"
    THEN TrimEndZero(header, endIndex - 1)
    ELSE endIndex

RECURSIVE TrimEnd(_, _)
\* The loop of getForwardedPrefix: the final value of endIndex.
TrimEnd(header, endIndex) ==
    IF endIndex > 1 /\ header[endIndex] = "/"
    THEN TrimEnd(header, endIndex - 1)
    ELSE endIndex

\* getForwardedPrefix erasing a header made of slashes only.
getForwardedPrefixErase(header) ==
    IF Len(header) = 0
    THEN Empty
    ELSE SubSeq(header, 1, TrimEndZero(header, Len(header)))

getForwardedPrefix(header) ==
    IF Len(header) = 0
    THEN Empty
    ELSE SubSeq(header, 1, TrimEnd(header, Len(header)))

RECURSIVE SplitFrom(_, _, _)
\* The '/'-separated elements of s from position i on; cur is the element
\* being read.
SplitFrom(s, i, cur) ==
    IF i > Len(s) THEN <<cur>>
    ELSE IF s[i] = "/" THEN <<cur>> \o SplitFrom(s, i + 1, Empty)
    ELSE SplitFrom(s, i + 1, Append(cur, s[i]))

DotDot == <<".", ".">>

RECURSIVE CleanElems(_, _, _, _)
\* path.Clean's pass over the elements: empty and "." elements are dropped,
\* ".." removes the preceding element, is dropped at the root and is kept
\* at the start of a relative path.
CleanElems(elems, i, out, rooted) ==
    IF i > Len(elems) THEN out
    ELSE LET e == elems[i] IN
         IF e = Empty \/ e = <<".">> THEN CleanElems(elems, i + 1, out, rooted)
         ELSE IF e = DotDot
              THEN IF Len(out) > 0 /\ out[Len(out)] # DotDot
                   THEN CleanElems(elems, i + 1, SubSeq(out, 1, Len(out) - 1), rooted)
                   ELSE IF ~rooted
                        THEN CleanElems(elems, i + 1, Append(out, e), rooted)
                        ELSE CleanElems(elems, i + 1, out, rooted)
              ELSE CleanElems(elems, i + 1, Append(out, e), rooted)

RECURSIVE Glue(_, _)
\* The elements from position i on, separated by '/'.
Glue(elems, i) ==
    IF i > Len(elems) THEN Empty
    ELSE IF i = Len(elems) THEN elems[i]
    ELSE elems[i] \o Slash \o Glue(elems, i + 1)

\* path.Clean
Clean(p) ==
    IF p = Empty THEN <<".">>
    ELSE LET rooted == p[1] = "/"
             out == CleanElems(SplitFrom(p, 1, Empty), 1, <<>>, rooted)
             body == Glue(out, 1)
         IN IF rooted THEN Slash \o body
            ELSE IF body = Empty THEN <<".">> ELSE body

\* path.Join of two elements.
Join(a, b) ==
    IF Len(a) + Len(b) = 0 THEN Empty
    ELSE IF a = Empty THEN Clean(b)
    ELSE Clean(a \o Slash \o b)

\* s occurs in t as a contiguous substring.
Contains(t, s) ==
    \E i \in 1..(Len(t) - Len(s) + 1) : SubSeq(t, i, i + Len(s) - 1) = s

\* ------------------------------------------------------------ responses
NilErr == "nil"
NotRegistered == "not registered"

\* swag.ReadDoc: the document registered under name, or the registry's error.
ReadDoc(name) ==
    IF name \in RegisteredNames
    THEN [doc |-> <<"{", name, "}">>, err |-> NilErr]
    ELSE [doc |-> Empty, err |-> NotRegistered]

\* index.Execute(c, cfg): the index page, which embeds the document URL.
Render(c) == <<"<", "u", "r", "l", "=">> \o c.URL \o <<">">>

\* What a fresh fiber.Ctx holds before the handler writes to it.
FreshResp(seg) ==
    [seg |-> seg, arm |-> "none", status |-> StatusOK, ctype |-> "",
     location |-> Empty, body |-> Empty, err |-> NilErr]

NoResp == FreshResp(Empty)

\* ServeIndex rendering a config whose URL was left as the defaults have it.
ServeIndexStale(seg, c) ==
    [FreshResp(seg) EXCEPT !.arm = "index", !.ctype = "text/html",
                           !.body = Render([c EXCEPT !.URL = Empty])]

\* case defaultIndex
ServeIndex(seg, c) ==
    [FreshResp(seg) EXCEPT !.arm = "index", !.ctype = "text/html",
                           !.body = Render(c)]

\* ServeDoc setting the content type before the registry lookup.
ServeDocTypeFirst(seg, c) ==
    LET r == ReadDoc(c.InstanceName) IN
    IF r.err # NilErr
    THEN [FreshResp(seg) EXCEPT !.arm = "doc", !.ctype = "application/json",
                                !.err = r.err]
    ELSE [FreshResp(seg) EXCEPT !.arm = "doc", !.ctype = "application/json",
                                !.body = r.doc]

\* case defaultDocURL
ServeDoc(seg, c) ==
    LET r == ReadDoc(c.InstanceName) IN
    IF r.err # NilErr
    THEN [FreshResp(seg) EXCEPT !.arm = "doc", !.err = r.err]
    ELSE [FreshResp(seg) EXCEPT !.arm = "doc", !.ctype = "application/json",
                                !.body = r.doc]

\* Redirect building the Location by plain concatenation.
RedirectConcat(seg, pfx) ==
    [FreshResp(seg) EXCEPT !.arm = "redirect",
                           !.location = pfx \o Slash \o defaultIndex,
                           !.status = StatusMovedPermanently]

\* case "", "/"
Redirect(seg, pfx) ==
    [FreshResp(seg) EXCEPT !.arm = "redirect",
                           !.location = Join(pfx, defaultIndex),
                           !.status = StatusMovedPermanently]

\* NotFound returning an error instead of sending the status.
NotFoundErr(seg) ==
    [FreshResp(seg) EXCEPT !.arm = "notfound", !.err = "Not Found"]

\* default
NotFound(seg) ==
    [FreshResp(seg) EXCEPT !.arm = "notfound", !.status = StatusNotFound,
                           !.body = <<"Not Found">>]

\* Handle serving the document at the segment cfg.URL names.
HandleConfigurable(seg, c, pfx) ==
    IF seg = defaultIndex THEN ServeIndex(seg, c)
    ELSE IF seg = c.URL THEN ServeDoc(seg, c)
    ELSE IF seg = Empty \/ seg = Slash THEN Redirect(seg, pfx)
    ELSE NotFound(seg)

\* The switch on p of the handler.
Handle(seg, c, pfx) ==
    IF seg = defaultIndex THEN ServeIndex(seg, c)
    ELSE IF seg = defaultDocURL THEN ServeDoc(seg, c)
    ELSE IF seg = Empty \/ seg = Slash THEN Redirect(seg, pfx)
    ELSE NotFound(seg)

\* ---------------------------------------------------------------- state
VARIABLES
    cfg,        \* the closure's cfg (URL, InstanceName)
    cfg0,       \* cfg as configDefault returned it (history)
    prefix,     \* the closure's prefix
    onceDone,   \* once.done
    onceM,      \* once.m: 0 when unlocked, else the process holding it
    pc,         \* position of each request goroutine in the handler
    req,        \* the request each goroutine is handling
    waited,     \* the goroutine found once.done set under the mutex
    resp,       \* the response of the goroutine's last finished request
    initLog,    \* one entry per completed run of the once.Do body (history)
    started     \* number of requests received so far

vars == <<cfg, cfg0, prefix, onceDone, onceM, pc, req, waited, resp, initLog, started>>

NoReq == [route |-> Empty, header |-> Empty]
\* What the request context answers to c.Route().Path and
\* c.Get("X-Forwarded-Prefix").
Requests == [route : ConcRoutes, header : ConcHeaders]
SeqRequests == [route : Routes, header : Headers]

\* New(config...): cfg from configDefault, prefix and once zero-valued.
Init ==
    /\ cfg \in Configs
    /\ cfg0 = cfg
    /\ prefix = Empty
    /\ onceDone = FALSE
    /\ onceM = 0
    /\ pc = [p \in Procs |-> "idle"]
    /\ req = [p \in Procs |-> NoReq]
    /\ waited = [p \in Procs |-> FALSE]
    /\ resp = [p \in Procs |-> NoResp]
    /\ initLog = <<>>
    /\ started = 0

\* The framework calls the handler with a request context.
Receive(p) ==
    /\ pc[p] = "idle"
    /\ started < MaxRequests
    /\ \E r \in Requests : req' = [req EXCEPT ![p] = r]
    /\ pc' = [pc EXCEPT ![p] = "once"]
    /\ waited' = [waited EXCEPT ![p] = FALSE]
    /\ resp' = [resp EXCEPT ![p] = NoResp]
    /\ started' = started + 1
    /\ UNCHANGED <<cfg, cfg0, prefix, onceDone, onceM, initLog>>

\* once.Do, fast path: the first load of once.done.
OnceFast(p) ==
    /\ pc[p] = "once"
    /\ pc' = [pc EXCEPT ![p] = IF onceDone THEN "dispatch" ELSE "lock"]
    /\ UNCHANGED <<cfg, cfg0, prefix, onceDone, onceM, req, waited, resp, initLog, started>>

\* OnceLock that goes on without the mutex when another goroutine holds it.
OnceLockTry(p) ==
    /\ pc[p] = "lock"
    /\ onceM' = IF onceM = 0 THEN p ELSE onceM
    /\ pc' = [pc EXCEPT ![p] = IF onceM = 0 THEN "slow" ELSE "dispatch"]
    /\ UNCHANGED <<cfg, cfg0, prefix, onceDone, req, waited, resp, initLog, started>>

\* once.Do, slow path: once.m.Lock() blocks while another goroutine holds it.
OnceLock(p) ==
    /\ pc[p] = "lock"
    /\ onceM = 0
    /\ onceM' = p
    /\ pc' = [pc EXCEPT ![p] = "slow"]
    /\ UNCHANGED <<cfg, cfg0, prefix, onceDone, req, waited, resp, initLog, started>>

\* OnceSlow without the second load of once.done.
OnceSlowNoRecheck(p) ==
    /\ pc[p] = "slow"
    /\ pc' = [pc EXCEPT ![p] = "init51"]
    /\ waited' = [waited EXCEPT ![p] = FALSE]
    /\ UNCHANGED <<cfg, cfg0, prefix, onceDone, onceM, req, resp, initLog, started>>

\* once.Do, slow path: the second load of once.done, under the mutex.
OnceSlow(p) ==
    /\ pc[p] = "slow"
    /\ pc' = [pc EXCEPT ![p] = IF onceDone THEN "unlock" ELSE "init51"]
    /\ waited' = [waited EXCEPT ![p] = onceDone]
    /\ UNCHANGED <<cfg, cfg0, prefix, onceDone, onceM, req, resp, initLog, started>>

\* prefix = strings.ReplaceAll(c.Route().Path, "*", "")
InitRoute(p) ==
    /\ pc[p] = "init51"
    /\ prefix' = ReplaceAll(req[p].route, "*")
    /\ pc' = [pc EXCEPT ![p] = "init52"]
    /\ UNCHANGED <<cfg, cfg0, onceDone, onceM, req, waited, resp, initLog, started>>

\* The prefix after the forwarded prefix has been taken into account.
WithForwarded(forwardedPrefix, pfx) ==
    IF forwardedPrefix # Empty THEN forwardedPrefix \o pfx ELSE pfx

\* forwardedPrefix := getForwardedPrefix(c); if non-empty, prepend it.
InitForwarded(p) ==
    /\ pc[p] = "init52"
    /\ prefix' = WithForwarded(getForwardedPrefix(req[p].header), prefix)
    /\ pc' = [pc EXCEPT ![p] = "init57"]
    /\ UNCHANGED <<cfg, cfg0, onceDone, onceM, req, waited, resp, initLog, started>>

\* FillURL joining by plain concatenation.
FillURLConcat(c, pfx) ==
    IF Len(c.URL) = 0 THEN [c EXCEPT !.URL = pfx \o Slash \o defaultDocURL] ELSE c

\* FillURL without the test for an empty cfg.URL.
FillURLAlways(c, pfx) == [c EXCEPT !.URL = Join(pfx, defaultDocURL)]

\* cfg after the default document URL has been filled in.
FillURL(c, pfx) ==
    IF Len(c.URL) = 0 THEN [c EXCEPT !.URL = Join(pfx, defaultDocURL)] ELSE c

\* if len(cfg.URL) == 0 { cfg.URL = path.Join(prefix, defaultDocURL) }
InitURL(p) ==
    /\ pc[p] = "init57"
    /\ cfg' = FillURL(cfg, prefix)
    /\ initLog' = Append(initLog, [route |-> req[p].route,
                                   header |-> req[p].header,
                                   prefix |-> prefix])
    /\ pc' = [pc EXCEPT ![p] = "store"]
    /\ UNCHANGED <<cfg0, prefix, onceDone, onceM, req, waited, resp, started>>

\* once.Do, slow path: the deferred once.done.Store(1).
OnceStore(p) ==
    /\ pc[p] = "store"
    /\ onceDone' = TRUE
    /\ pc' = [pc EXCEPT ![p] = "unlock"]
    /\ UNCHANGED <<cfg, cfg0, prefix, onceM, req, waited, resp, initLog, started>>

\* once.Do, slow path: the deferred once.m.Unlock().
OnceUnlock(p) ==
    /\ pc[p] = "unlock"
    /\ onceM' = 0
    /\ pc' = [pc EXCEPT ![p] = "dispatch"]
    /\ UNCHANGED <<cfg, cfg0, prefix, onceDone, req, waited, resp, initLog, started>>

\* p := c.Path(c.Params("*")); switch p { ... }, for each value seg that
\* the wildcard parameter of the request can have.
Dispatch(p) ==
    /\ pc[p] = "dispatch"
    /\ \E seg \in Segments : resp' = [resp EXCEPT ![p] = Handle(seg, cfg, prefix)]
    /\ pc' = [pc EXCEPT ![p] = "idle"]
    /\ req' = [req EXCEPT ![p] = NoReq]
    /\ UNCHANGED <<cfg, cfg0, prefix, onceDone, onceM, waited, initLog, started>>

Next ==
    \E p \in Procs :
        \/ Receive(p)
        \/ OnceFast(p)
        \/ OnceLock(p)
        \/ OnceSlow(p)
        \/ InitRoute(p)
        \/ InitForwarded(p)
        \/ InitURL(p)
        \/ OnceStore(p)
        \/ OnceUnlock(p)
        \/ Dispatch(p)

Spec == Init /\ [][Next]_vars

\* ------------------------------------------- one request after another
\* The whole handler for the first request of the instance: once.Do runs
\* its body, then the switch.
ServeFirst(r, seg) ==
    /\ ~onceDone
    /\ started < MaxRequests
    /\ LET pfx == WithForwarded(getForwardedPrefix(r.header), ReplaceAll(r.route, "*"))
           c == FillURL(cfg, pfx)
       IN /\ prefix' = pfx
          /\ cfg' = c
          /\ initLog' = Append(initLog, [route |-> r.route, header |-> r.header,
                                         prefix |-> pfx])
          /\ resp' = [resp EXCEPT ![1] = Handle(seg, c, pfx)]
    /\ onceDone' = TRUE
    /\ req' = [req EXCEPT ![1] = r]
    /\ started' = started + 1
    /\ UNCHANGED <<cfg0, onceM, pc, waited>>

\* The whole handler for a later request: once.Do returns at once, then the
\* switch.
ServeLater(r, seg) ==
    /\ onceDone
    /\ started < MaxRequests
    /\ resp' = [resp EXCEPT ![1] = Handle(seg, cfg, prefix)]
    /\ req' = [req EXCEPT ![1] = r]
    /\ started' = started + 1
    /\ UNCHANGED <<cfg, cfg0, prefix, onceDone, onceM, pc, waited, initLog>>

NextSeq ==
    \E r \in SeqRequests, seg \in Segments :
        \/ ServeFirst(r, seg)
        \/ ServeLater(r, seg)

SpecSeq == Init /\ [][NextSeq]_vars

\* ---------------------------------------------------------------- claims
\* The goroutine's last request has been answered.
Handled(p) == resp[p].arm # "none"

\* C1: the once.Do body runs exactly once per handler instance under every
\* interleaving of first requests, and every request past the guard sees the
\* one prefix that run computed.
C1_SingleInit ==
    /\ Len(initLog) <= 1
    /\ \A p \in Procs :
        /\ pc[p] = "dispatch" => (Len(initLog) = 1 /\ prefix = initLog[1].prefix)
        /\ (Handled(p) /\ resp[p].arm = "redirect") =>
               resp[p].location = Join(initLog[1].prefix, defaultIndex)

C1_Witness ==
    \E p, q \in Procs :
        /\ p # q
        /\ pc[p] = "dispatch" /\ ~waited[p]
        /\ pc[q] = "dispatch" /\ waited[q]

\* C2: a request at the path dispatch sees the finished initialisation:
\* once.done set, the body complete, prefix computed, and cfg.URL non-empty
\* when no override was configured, also when it arrived during the
\* initialisation.
C2_NoEarlyPass ==
    \A p \in Procs :
        pc[p] = "dispatch" =>
            /\ onceDone
            /\ Len(initLog) >= 1
            /\ \A q \in Procs : pc[q] \notin {"init51", "init52", "init57"}
            /\ cfg0.URL = Empty => (cfg.URL # Empty /\ cfg.URL = Join(prefix, defaultDocURL))

C2_Witness ==
    \E p \in Procs : pc[p] = "dispatch" /\ waited[p] /\ cfg0.URL = Empty

\* C3 as stated: a request for "" or "/" gets 301, an empty body and
\* Location = prefix + "/index.html".
C3_Original ==
    (Handled(1) /\ resp[1].seg \in {Empty, Slash}) =>
        /\ resp[1].status = StatusMovedPermanently
        /\ resp[1].body = Empty
        /\ resp[1].location = prefix \o Slash \o defaultIndex

\* s has two '/' in a row.
DoubleSlash(s) == \E i \in 1..(Len(s) - 1) : s[i] = "/" /\ s[i + 1] = "/"

\* C3 amended: a request for "" or "/" gets 301, an empty body, no error and
\* Location = path.Join(prefix, "index.html"): the cleaned path, which ends
\* in index.html and has no doubled '/'.
C3_Redirect ==
    (Handled(1) /\ resp[1].seg \in {Empty, Slash}) =>
        /\ resp[1].status = StatusMovedPermanently
        /\ resp[1].body = Empty
        /\ resp[1].err = NilErr
        /\ resp[1].location = Join(prefix, defaultIndex)
        /\ ~DoubleSlash(resp[1].location)
        /\ Len(resp[1].location) >= Len(defaultIndex)
        /\ SubSeq(resp[1].location,
                  Len(resp[1].location) - Len(defaultIndex) + 1,
                  Len(resp[1].location)) = defaultIndex

C3_Witness ==
    /\ Handled(1) /\ resp[1].seg = Slash
    /\ initLog[1].header # Empty
    /\ resp[1].location # prefix \o Slash \o defaultIndex

\* The route path with its wildcard markers removed.
MountPrefix(route) == SelectSeq(route, LAMBDA ch : ch # "*")

\* C4 as stated: without an override, after the first request cfg.URL is
\* join(P, "doc.json") for the mount prefix P.
C4_Original ==
    (onceDone /\ cfg0.URL = Empty) =>
        cfg.URL = Join(MountPrefix(initLog[1].route), defaultDocURL)

\* C4 amended: without an override, after the first request cfg.URL is
\* join(prefix, "doc.json") for the effective prefix, which is
\* join(P, "doc.json") when the first request had no forwarded prefix.
C4_DefaultURL ==
    (onceDone /\ cfg0.URL = Empty) =>
        /\ cfg.URL = Join(prefix, defaultDocURL)
        /\ ~DoubleSlash(cfg.URL)
        /\ initLog[1].header = Empty =>
               cfg.URL = Join(MountPrefix(initLog[1].route), defaultDocURL)

C4_Witness ==
    /\ onceDone /\ cfg0.URL = Empty
    /\ initLog[1].header # Empty
    /\ cfg.URL # Join(MountPrefix(initLog[1].route), defaultDocURL)

\* The normalised forwarded prefix: nothing for an absent or empty header,
\* else the shortest non-empty start of the header that only '/' follow.
NormForwarded(header) ==
    IF header = Empty THEN Empty
    ELSE LET k == CHOOSE k \in 1..Len(header) :
                      /\ \A i \in (k + 1)..Len(header) : header[i] = "/"
                      /\ k = 1 \/ header[k] # "/"
         IN SubSeq(header, 1, k)

\* C5: the prefix computed at the first request is F ++ R, with R the route
\* path without '*' and F the forwarded prefix header stripped of trailing
\* '/' but never down to nothing.
C5_Prefix ==
    onceDone =>
        /\ Len(initLog) = 1
        /\ prefix = NormForwarded(initLog[1].header) \o MountPrefix(initLog[1].route)
        /\ initLog[1].header = Empty => prefix = MountPrefix(initLog[1].route)

C5_Witness ==
    /\ onceDone
    /\ initLog[1].header = <<"/", "/">>
    /\ prefix = Slash \o MountPrefix(initLog[1].route)

\* C6: a request for doc.json gets the registered document verbatim with the
\* JSON content type, or else exactly the registry's error, no body and no
\* JSON content type.
C6_Doc ==
    \A p \in Procs :
        (Handled(p) /\ resp[p].seg = defaultDocURL) =>
            IF cfg.InstanceName \in RegisteredNames
            THEN /\ resp[p].err = NilErr
                 /\ resp[p].ctype = "application/json"
                 /\ resp[p].body = <<"{", cfg.InstanceName, "}">>
            ELSE /\ resp[p].err = NotRegistered
                 /\ resp[p].body = Empty
                 /\ resp[p].ctype # "application/json"

C6_Witness ==
    \E p \in Procs :
        /\ Handled(p) /\ resp[p].seg = defaultDocURL
        /\ resp[p].err = NotRegistered

\* C7 as stated: with a document URL override, a request for the segment the
\* override names is answered with the specification document.
C7_Original ==
    \A p \in Procs :
        (Handled(p) /\ cfg0.URL # Empty /\ resp[p].seg = cfg0.URL) =>
            /\ resp[p].arm = "doc"
            /\ resp[p].status = StatusOK

\* C7 amended: the document is served at the fixed segment doc.json whatever
\* the document URL option is; a request for the segment an override names
\* is not found unless the override names one of the handler's own segments.
C7_FixedSegment ==
    \A p \in Procs :
        Handled(p) =>
            /\ resp[p].arm = "doc" <=> resp[p].seg = defaultDocURL
            /\ (/\ cfg0.URL # Empty
                /\ resp[p].seg = cfg0.URL
                /\ cfg0.URL \notin {defaultIndex, defaultDocURL, Empty, Slash}) =>
                   resp[p].status = StatusNotFound

C7_Witness ==
    \E p \in Procs :
        /\ Handled(p) /\ cfg0.URL = CustomURL /\ resp[p].seg = CustomURL
        /\ resp[p].status = StatusNotFound

\* The document URL the index page is to show.
ConfiguredURL ==
    IF cfg0.URL # Empty THEN cfg0.URL ELSE Join(initLog[1].prefix, defaultDocURL)

OwnSegments == {defaultIndex, defaultDocURL, Empty, Slash}

\* C9: the dispatch is total and exclusive: each request takes exactly the
\* one arm its segment selects, and any other segment gets 404 as a normal
\* response without an error.
C9_Total ==
    \A p \in Procs :
        Handled(p) =>
            /\ resp[p].arm \in {"index", "doc", "redirect", "notfound"}
            /\ resp[p].arm = "index" <=> resp[p].seg = defaultIndex
            /\ resp[p].arm = "doc" <=> resp[p].seg = defaultDocURL
            /\ resp[p].arm = "redirect" <=> resp[p].seg \in {Empty, Slash}
            /\ resp[p].arm = "notfound" <=> resp[p].seg \notin OwnSegments
            /\ resp[p].ctype = "text/html" => resp[p].arm = "index"
            /\ resp[p].ctype = "application/json" => resp[p].arm = "doc"
            /\ resp[p].location # Empty => resp[p].arm = "redirect"
            /\ resp[p].status = StatusNotFound <=> resp[p].arm = "notfound"
            /\ resp[p].seg \notin OwnSegments => resp[p].err = NilErr

C9_Witness ==
    \E p \in Procs :
        /\ Handled(p) /\ resp[p].seg \notin OwnSegments
        /\ resp[p].status = StatusNotFound /\ cfg0.URL = Empty

\* C10: once the instance is initialised no step changes prefix or cfg, and
\* a configured document URL is never overwritten by any step.
C10_Frame ==
    [][/\ onceDone => (prefix' = prefix /\ cfg' = cfg)
       /\ cfg0.URL # Empty => cfg'.URL = cfg0.URL]_vars

C10_Witness ==
    \E p \in Procs :
        /\ pc[p] = "dispatch" /\ ~waited[p]
        /\ Len(initLog) = 1
        /\ req[p].route # initLog[1].route
        /\ req[p].header # initLog[1].header
        /\ prefix = initLog[1].prefix
        /\ cfg0.URL # Empty /\ cfg.URL = cfg0.URL

TypeOK ==
    /\ cfg.InstanceName \in InstanceNames
    /\ onceDone \in BOOLEAN
    /\ onceM \in 0..NumProcs
    /\ started \in 0..MaxRequests

====
